---- MODULE Spec2Model ----
(***************************************************************************)
(* Model of the rate-limiting / client-identification subsystem of         *)
(* Resto-n8n:                                                              *)
(*   - the client admission gate (src/hooks/useRateLimit.ts) with its      *)
(*     redundant counter store and the browser fingerprint hook;           *)
(*   - the server admission gate and proxy                                 *)
(*     (src/app/api/restaurants/route.ts);                                 *)
(*   - the search dispatch of the page (src/app/page.tsx).                 *)
(* Time is Date.now() in milliseconds.                                     *)
(***************************************************************************)
EXTENDS Integers, Sequences, FiniteSets, TLC

(***************************************************************************)
(* Bounds of the model                                                     *)
(***************************************************************************)
\* number of whole windows the clock may run through
MaxWindows == 1
\* number of checkRateLimit() calls in one behaviour
MaxCalls == 4
\* largest config.maxRequests a caller of the hook supplies
MaxConfigRequests == 2

(***************************************************************************)
(* Program constants                                                       *)
(***************************************************************************)
\* RATE_LIMIT.windowMs, also the config.windowMs of the product (24 h)
WindowMs == 24 * 60 * 60 * 1000
\* max-age of the cookie written by setMultiStorage, in milliseconds
CookieMaxAgeMs == 24 * 60 * 60 * 1000

\* offsets inside a window at which the clock is observed
Offsets == {0, 1, 1000, WindowMs - 1}
Times == {k * WindowMs + o : k \in 0..MaxWindows, o \in Offsets}

\* absent storage item / getItem() returning null
NoItem == [kind |-> "none"]
\* useState<string>("") of the fingerprint hook: no fingerprint yet
NoFingerprint == ""
\* fingerprints generateFingerprint can produce in the modelled environments
Fingerprints == {"F1", "F2"}
\* new Date(...) absent: resetTime === null
NoTime == -1

(***************************************************************************)
(* RequestRecord and its serialisation                                     *)
(***************************************************************************)
RequestRecord(ts, c, fp) == [timestamp |-> ts, count |-> c, fingerprint |-> fp]

\* JSON.stringify(record): the text stored under the key
Stringify(record) == [kind |-> "json", timestamp |-> record.timestamp,
                      count |-> record.count, fingerprint |-> record.fingerprint]

\* JSON.parse(stored) of a text written by Stringify
Parse(item) == RequestRecord(item.timestamp, item.count, item.fingerprint)

\* truthiness of a getItem() result
Truthy(item) == item.kind # "none"

\* a stored text that is not JSON: JSON.parse throws a SyntaxError on it
Garbage == [kind |-> "text"]

\* JSON.parse(item) returns instead of throwing
Parsable(item) == item.kind = "json"

VARIABLES
  now,          \* Date.now()
  config,       \* RateLimitConfig of the hook: maxRequests, windowMs
  storage,      \* localStorage / sessionStorage / cookie of the browser
  fingerprint,  \* state of useBrowserFingerprint
  env,          \* the fingerprint the ambient attributes currently encode
  published,    \* isLimited, remainingRequests, resetTime of useRateLimit
  pending,      \* effects scheduled by the last commit, and what the
                \* mount-time effect read when it last ran
  last,         \* what the last checkRateLimit() call read and returned,
                \* and what detectManipulation() last returned
  calls,        \* number of checkRateLimit() calls made
  admitLog      \* times of the identified checkRateLimit() calls that
                \* returned false and can still fall in a stored window

\* the state of the hook and of the browser it runs in
clientVars == <<config, storage, fingerprint, env, published, pending, last,
                calls, admitLog>>

VARIABLES
  requestCounts,  \* the process-wide Map of the route module
  handlers,       \* the GET invocations: where each one stands
  response,       \* the last response a GET invocation returned
  verdict,        \* what the last isRateLimited call was asked and
                  \* returned, and the headers of the request it was for
  sent,           \* number of requests received
  serverLog       \* the requests that were admitted or fetched upstream:
                  \* headers, identity, time, admitted or not, fetched or
                  \* not

serverVars == <<requestCounts, handlers, response, verdict, sent, serverLog>>

VARIABLES
  page,           \* state of RestaurantDiscovery: radius, loading, error, ...
  dispatched      \* the searches the page sent out: where to, and after
                  \* which admission check

pageVars == <<page, dispatched>>

VARIABLES
  op              \* the last operation made on the Redundant Counter Store
                  \* from outside the hook, and the operation before it

storeVars == <<op>>

VARIABLES
  tabs            \* the further tabs of the browser: where the
                  \* checkRateLimit() call of each one stands

tabVars == <<tabs>>

VARIABLES
  recent          \* the calls each gate admitted during the last windowMs:
                  \* for the client, time and whether a fingerprint was
                  \* available; for the server, time

burstVars == <<recent>>

VARIABLES
  firings         \* how many times the setInterval timer of the route module
                  \* has fired since the module was loaded

timerVars == <<firings>>

vars ==
  <<now, clientVars, serverVars, pageVars, storeVars, tabVars, burstVars,
    timerVars>>

(***************************************************************************)
(* Redundant counter store                                                 *)
(***************************************************************************)
\* the three backends, in the priority order of getMultiStorage
Backends == {"local", "session", "cookie"}

\* document.cookie as seen at time t: an expired cookie is not listed
CookieGet(st, t) ==
  IF Truthy(st.cookie) /\ t < st.cookieExpires THEN st.cookie ELSE NoItem

\* mutant of SetMultiStorage: only localStorage is written
SetMultiStorageLocalOnly(st, value, t) == [st EXCEPT !.local = value]

\* setMultiStorage with every backend accepting the write
SetMultiStorage(st, value, t) ==
  [st EXCEPT !.local = value,
             !.session = value,
             !.cookie = value,
             !.cookieExpires = t + CookieMaxAgeMs]

\* mutant of GetMultiStorage: the value is returned without the back-fills
GetMultiStorageNoBackfill(st, t) ==
  [store |-> st,
   value |-> IF Truthy(st.local) THEN st.local
             ELSE IF Truthy(st.session) THEN st.session
             ELSE CookieGet(st, t)]

\* result: the store after the back-fills and the value returned
GetMultiStorage(st, t) ==
  IF Truthy(st.local) THEN [store |-> st, value |-> st.local]
  ELSE IF Truthy(st.session)
    THEN [store |-> [st EXCEPT !.local = st.session], value |-> st.session]
  ELSE IF Truthy(CookieGet(st, t))
    THEN [store |-> [st EXCEPT !.local = CookieGet(st, t),
                               !.session = CookieGet(st, t)],
          value |-> CookieGet(st, t)]
  ELSE [store |-> st, value |-> NoItem]

\* the browser drops a cookie whose max-age has run out
ExpireCookie(st, t) ==
  IF Truthy(st.cookie) /\ t >= st.cookieExpires
  THEN [st EXCEPT !.cookie = NoItem, !.cookieExpires = 0]
  ELSE st

\* the windowStart of every record a backend holds
StoredTimestamps(st) ==
  {Parse(item).timestamp : item \in {x \in {st.local, st.session, st.cookie} :
                                        Parsable(x)}}

\* the admitted calls that a stored window, or one opened from time t on,
\* can still contain
Retain(log, st, t) ==
  SelectSeq(log, LAMBDA e : \E ts \in StoredTimestamps(st) \cup {t} : e >= ts)

\* mutant of RemoveItems: sessionStorage is left alone
RemoveItemsLocalOnly(st) == [st EXCEPT !.local = NoItem]

\* localStorage.removeItem + sessionStorage.removeItem
RemoveItems(st) == [st EXCEPT !.local = NoItem, !.session = NoItem]

\* mutant of DetectManipulation: a presence disagreement is reported but the
\* missing backend is not restored
DetectManipulationNoHeal(st, fp) ==
  IF fp = NoFingerprint THEN [store |-> st, flag |-> FALSE]
  ELSE IF Truthy(st.local) # Truthy(st.session)
    THEN [store |-> st, flag |-> TRUE]
  ELSE IF Truthy(st.local)
          /\ Parsable(st.local)
          /\ Parse(st.local).fingerprint # NoFingerprint
          /\ Parse(st.local).fingerprint # fp
    THEN [store |-> st, flag |-> TRUE]
  ELSE [store |-> st, flag |-> FALSE]

\* result: the store after healing and the returned flag
DetectManipulation(st, fp) ==
  IF fp = NoFingerprint THEN [store |-> st, flag |-> FALSE]
  ELSE IF Truthy(st.local) # Truthy(st.session)
    THEN [store |-> [st EXCEPT
                       !.session = IF Truthy(st.local) THEN st.local ELSE @,
                       !.local = IF Truthy(st.local) THEN @ ELSE st.session],
          flag |-> TRUE]
  ELSE IF Truthy(st.local)
          /\ Parsable(st.local)
          /\ Parse(st.local).fingerprint # NoFingerprint
          /\ Parse(st.local).fingerprint # fp
    THEN [store |-> st, flag |-> TRUE]
  ELSE [store |-> st, flag |-> FALSE]

(***************************************************************************)
(* Client admission gate                                                   *)
(***************************************************************************)
Published(lim, rem, rt) ==
  [isLimited |-> lim, remainingRequests |-> rem, resetTime |-> rt]

\* useState initial values
InitialPublished(cfg) == Published(FALSE, cfg.maxRequests, NoTime)

\* mutant of IncrementCount: the call is counted twice
IncrementCountTwice(c) == c + 2

\* mutant of IncrementCount: the increment is lost
IncrementCountLost(c) == c

\* record.count += 1 of checkRateLimit
IncrementCount(c) == c + 1

\* mutant of QuotaReached: the limit compared with > instead of >=
QuotaReachedStrict(c, cfg) == c > cfg.maxRequests

\* record.count >= config.maxRequests
QuotaReached(c, cfg) == c >= cfg.maxRequests

\* now < resetTime
WindowOpen(t, resetTime) == t < resetTime

\* mutant of WindowExpired: the boundary compared with > instead of >=
WindowExpiredStrict(t, resetTime) == t > resetTime

\* now >= resetTime
WindowExpired(t, resetTime) == t >= resetTime

\* mutant of WindowEndOf: the window is taken to start at the epoch
WindowEndOfEpoch(record, cfg) == cfg.windowMs

\* record.timestamp + config.windowMs
WindowEndOf(record, cfg) == record.timestamp + cfg.windowMs

\* mutant of RemainingOf: the count taken before it was incremented
RemainingOfBefore(cfg, c) == cfg.maxRequests - (c - 1)

\* config.maxRequests - record.count, published by an admitted call
RemainingOf(cfg, c) == cfg.maxRequests - c

\* checkRateLimit from line 116 on: the decision on the text that was read;
\* result: the store, the published state and the returned boolean
AfterRead(st, value, cfg, fp, t) ==
  LET record == IF Truthy(value) THEN Parse(value)
                ELSE RequestRecord(t, 0, fp)
      resetTime == WindowEndOf(record, cfg)
  IN IF WindowOpen(t, resetTime) /\ QuotaReached(record.count, cfg)
     THEN [store |-> st,
           published |-> Published(TRUE, 0, resetTime),
           read |-> value,
           ret |-> TRUE]
     ELSE
       LET expired == WindowExpired(t, resetTime)
           record2 == IF expired THEN RequestRecord(t, 0, fp) ELSE record
           store2 == IF expired
                     THEN SetMultiStorage(st, Stringify(record2), t)
                     ELSE st
       IN IF QuotaReached(record2.count, cfg)
          THEN [store |-> store2,
                published |-> Published(TRUE, 0, resetTime),
                read |-> value,
                ret |-> TRUE]
          ELSE
            LET record3 == RequestRecord(record2.timestamp,
                                         IncrementCount(record2.count), fp)
            IN [store |-> SetMultiStorage(store2, Stringify(record3), t),
                published |->
                  Published(FALSE, RemainingOf(cfg, record3.count),
                            IF QuotaReached(record3.count, cfg)
                            THEN resetTime ELSE NoTime),
                read |-> value,
                ret |-> FALSE]

\* the store as detectManipulation and getMultiStorage leave it, and the text
\* checkRateLimit is about to parse
StoredText(st, fp, t) == GetMultiStorage(DetectManipulation(st, fp).store, t)

\* the branch of checkRateLimit taken when a fingerprint is available and the
\* stored text parses; result: the store, the published state and the
\* returned boolean
CheckRateLimitBody(st, cfg, fp, t) ==
  AfterRead(StoredText(st, fp, t).store, StoredText(st, fp, t).value,
            cfg, fp, t)

\* mutant of FailsOpen: the early return of line 108 is missing
FailsOpenNever(fp) == FALSE

\* !fingerprint: checkRateLimit returns false before it reads anything
FailsOpen(fp) == fp = NoFingerprint

\* JSON.parse(stored) of checkRateLimit, outside any try, throws
Raises(st, fp, t) ==
  Truthy(StoredText(st, fp, t).value) /\ ~Parsable(StoredText(st, fp, t).value)

\* what a checkRateLimit() call read and returned, and what its
\* detectManipulation() call returned
Outcome(ret, identified, read, raised, flag) ==
  [ret |-> ret, identified |-> identified, read |-> read, raised |-> raised,
   flag |-> flag]

\* a checkRateLimit() call: what it does to the hook and to the browser
CheckRateLimitCall ==
  /\ calls < MaxCalls
  /\ calls' = calls + 1
  /\ IF FailsOpen(fingerprint)
     THEN /\ last' = Outcome(FALSE, FALSE, NoItem, FALSE, FALSE)
          /\ UNCHANGED <<storage, published, admitLog>>
     ELSE IF Raises(storage, fingerprint, now)
     THEN /\ storage' = StoredText(storage, fingerprint, now).store
          /\ last' = Outcome(FALSE, TRUE,
                             StoredText(storage, fingerprint, now).value, TRUE,
                             DetectManipulation(storage, fingerprint).flag)
          /\ admitLog' = Retain(admitLog, storage', now)
          /\ UNCHANGED published
     ELSE LET r == CheckRateLimitBody(storage, config, fingerprint, now)
          IN /\ storage' = r.store
             /\ published' = r.published
             /\ last' = Outcome(r.ret, TRUE, r.read, FALSE,
                                DetectManipulation(storage, fingerprint).flag)
             /\ admitLog' = Retain(IF r.ret THEN admitLog
                                    ELSE Append(admitLog, now),
                                    r.store, now)
  /\ UNCHANGED <<now, config, fingerprint, env, pending>>

\* checkRateLimit(): fails open while no fingerprint is available
CheckRateLimit ==
  /\ CheckRateLimitCall
  /\ UNCHANGED <<serverVars, pageVars, storeVars, tabVars,
                 burstVars, timerVars>>


\* mutant of FingerprintValue: the cached fingerprint is ignored
FingerprintValueFresh(cached, generated) == generated

\* the fingerprint the effect settles on: the cached one if there is one,
\* else the one generated from the ambient attributes
FingerprintValue(cached, generated) ==
  IF cached # NoFingerprint THEN cached ELSE generated

\* the effect of useBrowserFingerprint: cached value first, else generate
FingerprintEffect ==
  /\ pending.fingerprint
  /\ LET cached == storage.sessionFp
         value == FingerprintValue(cached, env)
     IN /\ fingerprint' = value
        /\ storage' = [storage EXCEPT !.sessionFp = value]
        /\ pending' = [pending EXCEPT
                         !.fingerprint = FALSE,
                         !.mount = pending.mount \/ value # fingerprint]
  /\ UNCHANGED <<now, config, env, published, last, calls, admitLog>>
  /\ UNCHANGED <<serverVars, pageVars, storeVars, tabVars,
                 burstVars, timerVars>>

\* mutant of MountEffectBody: the view counts itself as a request
MountEffectBodyCounting(st, cfg, fp, t, pub) ==
  IF fp = NoFingerprint THEN [store |-> st, published |-> pub]
  ELSE [store |-> CheckRateLimitBody(st, cfg, fp, t).store,
        published |-> CheckRateLimitBody(st, cfg, fp, t).published]

\* the body of the mount-time effect of useRateLimit;
\* result: the store and the published state
MountEffectBody(st, cfg, fp, t, pub) ==
  IF fp = NoFingerprint THEN [store |-> st, published |-> pub]
  ELSE
    LET got == GetMultiStorage(st, t)
    IN IF ~Truthy(got.value) THEN [store |-> got.store, published |-> pub]
       ELSE IF ~Parsable(got.value)
       THEN [store |-> RemoveItems(got.store), published |-> pub]
       ELSE
         LET record == Parse(got.value)
             resetTimeValue == WindowEndOf(record, cfg)
         IN IF WindowOpen(t, resetTimeValue)
               /\ QuotaReached(record.count, cfg)
            THEN [store |-> got.store,
                  published |-> Published(TRUE, 0, resetTimeValue)]
            ELSE IF WindowExpired(t, resetTimeValue)
            THEN [store |-> RemoveItems(got.store),
                  published |-> Published(FALSE, cfg.maxRequests, NoTime)]
            ELSE [store |-> got.store,
                  published |->
                    Published(FALSE, cfg.maxRequests - record.count, NoTime)]

\* the mount-time effect runs after a commit that changed its dependencies
MountEffect ==
  /\ pending.mount
  /\ ~pending.fingerprint
  /\ LET r == MountEffectBody(storage, config, fingerprint, now, published)
     IN /\ storage' = r.store
        /\ published' = r.published
  /\ pending' = [pending EXCEPT
                   !.mount = FALSE,
                   !.read = GetMultiStorage(storage, now).value]
  /\ admitLog' = Retain(admitLog, storage', now)
  /\ UNCHANGED <<now, config, fingerprint, env, last, calls>>
  /\ UNCHANGED <<serverVars, pageVars, storeVars, tabVars,
                 burstVars, timerVars>>

\* reset(): the explicit escape hatch
Reset ==
  /\ storage' = RemoveItems(storage)
  /\ published' = Published(FALSE, config.maxRequests, NoTime)
  /\ admitLog' = Retain(admitLog, storage', now)
  /\ UNCHANGED <<now, config, fingerprint, env, pending, last, calls>>
  /\ UNCHANGED <<serverVars, pageVars, storeVars, tabVars,
                 burstVars, timerVars>>

\* the page is loaded again: the hooks are constructed afresh; a new browser
\* session also starts with an empty sessionStorage
Remount ==
  \E newSession \in BOOLEAN :
    /\ fingerprint' = NoFingerprint
    /\ published' = InitialPublished(config)
    /\ pending' = [fingerprint |-> TRUE, mount |-> TRUE, read |-> NoItem]
    /\ storage' = IF newSession
                  THEN [storage EXCEPT !.session = NoItem,
                                       !.sessionFp = NoFingerprint]
                  ELSE storage
    /\ admitLog' = Retain(admitLog, storage', now)
    /\ UNCHANGED <<now, config, env, last, calls>>
    /\ UNCHANGED <<serverVars, pageVars, storeVars, tabVars,
                   burstVars, timerVars>>

\* the ambient attributes change (timezone, language, ...)
EnvChange ==
  /\ \E f \in Fingerprints \ {env} : env' = f
  /\ UNCHANGED <<now, config, storage, fingerprint, published, pending, last,
                 calls, admitLog>>
  /\ UNCHANGED <<serverVars, pageVars, storeVars, tabVars,
                 burstVars, timerVars>>

\* the text under the key is overwritten in one backend from outside the
\* hook (the user, an extension, another script of the origin)
Tamper ==
  /\ \E b \in Backends :
       /\ storage[b] # Garbage
       /\ storage' =
            IF b = "cookie"
            THEN [storage EXCEPT !.cookie = Garbage,
                                 !.cookieExpires =
                                   IF Truthy(storage.cookie) THEN @
                                   ELSE now + CookieMaxAgeMs]
            ELSE [storage EXCEPT ![b] = Garbage]
  /\ admitLog' = Retain(admitLog, storage', now)
  /\ UNCHANGED <<now, config, fingerprint, env, published, pending, last,
                 calls>>
  /\ UNCHANGED <<serverVars, pageVars, storeVars, tabVars,
                 burstVars, timerVars>>

\* the clock advances
Tick ==
  /\ \E t \in Times : t > now /\ now' = t
  /\ storage' = ExpireCookie(storage, now')
  /\ admitLog' = Retain(admitLog, storage', now')
  /\ UNCHANGED <<config, fingerprint, env, published, pending, last, calls>>
  /\ UNCHANGED <<serverVars, pageVars, storeVars, tabVars,
                 burstVars, timerVars>>

(***************************************************************************)
(* Server: identity deriver                                                *)
(***************************************************************************)
\* RATE_LIMIT.maxRequests
RateLimitMaxRequests == 2

\* a header that is not sent: headers.get() returns null
NoHeader == ""
\* a hop of x-forwarded-for as written, with or without blanks around it
Hop(text, padded) == [text |-> text, padded |-> padded]
\* String.prototype.trim() of a hop
Trim(hop) == hop.text
\* a user agent: its first 12 characters and what follows them
UserAgent(first12, rest) == [first12 |-> first12, rest |-> rest]

\* no user-agent header, or an empty one
NoUserAgent == UserAgent("", "")

\* Buffer.from(userAgent.slice(0, 100)).toString("base64").slice(0, 16):
\* sixteen base64 characters encode the first twelve characters only
UserAgentHash(ua) == <<"base64", ua.first12>>

\* mutant of GetClientIdentifier: x-real-ip is looked at before
\* x-forwarded-for
GetClientIdentifierRealIPFirst(headers) ==
  LET ip == IF headers.realIP # NoHeader THEN headers.realIP
            ELSE IF headers.forwarded # <<>>
              THEN Trim(Head(headers.forwarded))
            ELSE IF headers.clientIP # NoHeader THEN headers.clientIP
            ELSE "127.0.0.1"
      userAgent == IF headers.userAgent # NoUserAgent THEN headers.userAgent
                   ELSE UserAgent("unknown", "")
  IN [ip |-> ip, userAgentHash |-> UserAgentHash(userAgent)]

\* mutant of GetClientIdentifier: without an address header the address is
\* taken from the connection the request arrived on
GetClientIdentifierPerConnection(headers) ==
  LET ip == IF headers.forwarded # <<>> THEN Trim(Head(headers.forwarded))
            ELSE IF headers.realIP # NoHeader THEN headers.realIP
            ELSE IF headers.clientIP # NoHeader THEN headers.clientIP
            ELSE IF headers.connection = 1 THEN "127.0.0.1" ELSE "127.0.0.2"
      userAgent == IF headers.userAgent # NoUserAgent THEN headers.userAgent
                   ELSE UserAgent("unknown", "")
  IN [ip |-> ip, userAgentHash |-> UserAgentHash(userAgent)]

\* getClientIdentifier(request): first hop of x-forwarded-for, else
\* x-real-ip, else x-client-ip, else 127.0.0.1; joined with the hash of the
\* user agent
GetClientIdentifier(headers) ==
  LET ip == IF headers.forwarded # <<>> THEN Trim(Head(headers.forwarded))
            ELSE IF headers.realIP # NoHeader THEN headers.realIP
            ELSE IF headers.clientIP # NoHeader THEN headers.clientIP
            ELSE "127.0.0.1"
      userAgent == IF headers.userAgent # NoUserAgent THEN headers.userAgent
                   ELSE UserAgent("unknown", "")
  IN [ip |-> ip, userAgentHash |-> UserAgentHash(userAgent)]

\* the header sets the modelled clients send
RequestHeaders ==
  {[forwarded |-> <<Hop("203.0.113.5", TRUE), Hop("10.0.0.1", FALSE)>>,
    realIP |-> "198.51.100.7", clientIP |-> NoHeader,
    userAgent |-> UserAgent("Mozilla/5.0 ", "(X11; Linux x86_64)")],
   [forwarded |-> <<>>, realIP |-> NoHeader, clientIP |-> NoHeader,
    userAgent |-> NoUserAgent]}

\* what else tells two requests apart and is never read by the deriver: the
\* connection a request arrives on
Connections == {1, 2}

\* a NextRequest: the four headers the deriver reads and the connection
Request(h, c) ==
  [forwarded |-> h.forwarded, realIP |-> h.realIP, clientIP |-> h.clientIP,
   userAgent |-> h.userAgent, connection |-> c]

\* the four headers of a request
HeadersOf(request) ==
  [forwarded |-> request.forwarded, realIP |-> request.realIP,
   clientIP |-> request.clientIP, userAgent |-> request.userAgent]

\* the requests the modelled clients send
Requests == {Request(h, c) : h \in RequestHeaders, c \in Connections}

Identities == {GetClientIdentifier(r) : r \in Requests}

\* a request that carries none of the headers the deriver reads
NoHeaders ==
  [forwarded |-> <<>>, realIP |-> NoHeader, clientIP |-> NoHeader,
   userAgent |-> NoUserAgent]

\* no request was received yet
NoIdentity == [ip |-> "", userAgentHash |-> <<>>]

(***************************************************************************)
(* Server admission gate                                                   *)
(***************************************************************************)
\* requestCounts.get(clientId) === undefined
NoRecord == [count |-> 0, timestamp |-> -1]

\* now - record.timestamp > RATE_LIMIT.windowMs
WindowElapsed(t, timestamp) == t - timestamp > WindowMs

\* mutant of LimitReached: the limit compared with > instead of >=
LimitReachedStrict(c) == c > RateLimitMaxRequests

\* record.count >= RATE_LIMIT.maxRequests
LimitReached(c) == c >= RateLimitMaxRequests

\* mutant of ResetTimeOf: the reset time counted from the denied request
ResetTimeSliding(timestamp, t) == t + WindowMs

\* record.timestamp + RATE_LIMIT.windowMs of a denial at time t
ResetTimeOf(timestamp, t) == timestamp + WindowMs

\* mutant of RemainingAfter: the count read before it was incremented
RemainingBefore(c) == RateLimitMaxRequests - (c - 1)

\* RATE_LIMIT.maxRequests - record.count, the count already incremented
RemainingAfter(c) == RateLimitMaxRequests - c

\* mutant of IsRateLimited: a new window is opened for every identity of the
\* map at once
IsRateLimitedShared(counts, clientId, t) ==
  LET record == counts[clientId]
  IN IF record = NoRecord \/ WindowElapsed(t, record.timestamp)
     THEN [counts |-> [id \in DOMAIN counts |->
                         [count |-> 1, timestamp |-> t]],
           limited |-> FALSE,
           remainingRequests |-> RateLimitMaxRequests - 1,
           resetTime |-> NoTime]
     ELSE IF LimitReached(record.count)
     THEN [counts |-> counts,
           limited |-> TRUE,
           remainingRequests |-> 0,
           resetTime |-> ResetTimeOf(record.timestamp, t)]
     ELSE [counts |-> [counts EXCEPT ![clientId].count = record.count + 1],
           limited |-> FALSE,
           remainingRequests |-> RemainingAfter(record.count + 1),
           resetTime |-> NoTime]

\* result: the map after the call and the returned object
IsRateLimited(counts, clientId, t) ==
  LET record == counts[clientId]
  IN IF record = NoRecord \/ WindowElapsed(t, record.timestamp)
     THEN [counts |-> [counts EXCEPT ![clientId] =
                         [count |-> 1, timestamp |-> t]],
           limited |-> FALSE,
           remainingRequests |-> RateLimitMaxRequests - 1,
           resetTime |-> NoTime]
     ELSE IF LimitReached(record.count)
     THEN [counts |-> counts,
           limited |-> TRUE,
           remainingRequests |-> 0,
           resetTime |-> ResetTimeOf(record.timestamp, t)]
     ELSE [counts |-> [counts EXCEPT ![clientId].count = record.count + 1],
           limited |-> FALSE,
           remainingRequests |-> RemainingAfter(record.count + 1),
           resetTime |-> NoTime]

\* Math.ceil(a / 1000)
CeilSeconds(a) == -((-a) \div 1000)

\* retryAfter of the 429 response, Date.now() read again at time t
RetryAfter(resetTime, t) ==
  IF resetTime # NoTime /\ resetTime # 0 THEN CeilSeconds(resetTime - t)
  ELSE 60

\* number of requests in one behaviour
MaxServerRequests == 3
\* number of GET invocations that can await the upstream at once
MaxHandlers == 2
Handlers == 1..MaxHandlers
Idle == [pc |-> "idle"]

\* number of whole windows the clock of the server may run through
MaxServerWindows == 2
\* offsets inside a window at which the clock of the server is observed
ServerOffsets == {0, WindowMs - 1}
ServerTimes ==
  {k * WindowMs + o : k \in 0..MaxServerWindows, o \in ServerOffsets}

\* the times Date.now() can return when read again in the same turn
LaterNow == {t \in ServerTimes : t >= now /\ t <= now + 1}

\* the log entries a window of the map, or one opened from time t on, can
\* still contain
RetainServer(log, counts, t) ==
  SelectSeq(log, LAMBDA e :
    e.time >= t \/ (counts[e.clientId] # NoRecord
                    /\ e.time >= counts[e.clientId].timestamp))

\* mutant of Route: the early return of the denial is missing
RouteUnguarded(limited, hasPosition) ==
  IF ~hasPosition THEN "bad-request" ELSE "fetch"

\* what GET does once isRateLimited returned
Route(limited, hasPosition) ==
  IF limited THEN "deny"
  ELSE IF ~hasPosition THEN "bad-request"
  ELSE "fetch"

\* GET up to its first await: identity, admission, and either a response or
\* the upstream fetch
GetStart ==
  /\ sent < MaxServerRequests
  /\ sent' = sent + 1
  /\ \E request \in Requests, hasPosition \in BOOLEAN :
       LET headers == HeadersOf(request)
           clientId == GetClientIdentifier(request)
           r == IsRateLimited(requestCounts, clientId, now)
           route == Route(r.limited, hasPosition)
           entry == [headers |-> headers, clientId |-> clientId, time |-> now,
                     admitted |-> ~r.limited, fetched |-> route = "fetch"]
           log == IF entry.admitted \/ entry.fetched
                  THEN Append(serverLog, entry) ELSE serverLog
       IN /\ requestCounts' = r.counts
          /\ verdict' = [headers |-> headers,
                         clientId |-> clientId, limited |-> r.limited,
                         remainingRequests |-> r.remainingRequests,
                         resetTime |-> r.resetTime]
          /\ IF route = "deny"
             THEN /\ \E t \in LaterNow :
                       /\ now' = t
                       /\ response' =
                            [status |-> 429,
                             retryAfter |-> RetryAfter(r.resetTime, t),
                             limit |-> RateLimitMaxRequests,
                             remaining |-> 0,
                             reset |-> r.resetTime,
                             clientId |-> clientId]
                       /\ serverLog' = RetainServer(log, r.counts, t)
                  /\ UNCHANGED handlers
             ELSE /\ now' = now
                  /\ serverLog' = RetainServer(log, r.counts, now)
                  /\ IF route = "bad-request"
                     THEN /\ response' = [status |-> 400]
                          /\ UNCHANGED handlers
                     ELSE /\ \E h \in Handlers :
                               /\ handlers[h] = Idle
                               /\ \A g \in Handlers :
                                    g < h => handlers[g] # Idle
                               /\ handlers' =
                                    [handlers EXCEPT ![h] =
                                       [pc |-> "fetching",
                                        clientId |-> clientId,
                                        remainingRequests |->
                                          r.remainingRequests]]
                          /\ UNCHANGED response
  /\ UNCHANGED <<clientVars, pageVars, storeVars, tabVars,
                 burstVars, timerVars>>

\* GET after the upstream answered: pass the payload through, or 500
GetFinish(h) ==
  /\ handlers[h].pc = "fetching"
  /\ \E ok \in BOOLEAN :
       response' = IF ok
                   THEN [status |-> 200,
                         limit |-> RateLimitMaxRequests,
                         remaining |-> handlers[h].remainingRequests,
                         clientId |-> handlers[h].clientId]
                   ELSE [status |-> 500]
  /\ handlers' = [handlers EXCEPT ![h] = Idle]
  /\ UNCHANGED <<now, requestCounts, verdict, sent, serverLog>>
  /\ UNCHANGED <<clientVars, pageVars, storeVars, tabVars,
                 burstVars, timerVars>>

\* mutant of Stale: a record is swept as soon as its window has run out
StaleAtWindowEnd(t, timestamp) == t - timestamp >= WindowMs

\* now - record.timestamp > RATE_LIMIT.windowMs * 2
Stale(t, timestamp) == t - timestamp > WindowMs * 2

\* the setInterval callback: what one run does to the route module
SweepCallback ==
  /\ requestCounts' =
       [id \in Identities |->
          IF requestCounts[id] # NoRecord
             /\ Stale(now, requestCounts[id].timestamp)
          THEN NoRecord ELSE requestCounts[id]]
  /\ serverLog' = RetainServer(serverLog, requestCounts', now)
  /\ UNCHANGED <<now, handlers, response, verdict, sent>>

\* the setInterval callback; the timer itself is not modelled, the callback
\* may run at any time between two requests
Sweep ==
  /\ SweepCallback
  /\ UNCHANGED <<clientVars, pageVars, storeVars, tabVars, burstVars,
                 timerVars>>

(***************************************************************************)
(* Page: the search dispatch of RestaurantDiscovery                        *)
(***************************************************************************)
\* number of searches the user starts in one behaviour
MaxSearches == 2

\* positions of the radius slider that are modelled (min, default, max)
Radii == {100, 300, 5000}

\* the URL searchRestaurants fetches: the recommendation webhook itself
WebhookUrl == "http://localhost:5678/webhook/resto-reco"
\* the route of the Upstream Proxy, guarded by the Server Admission Gate
ProxyUrl == "/api/restaurants"

\* useState initial values of the page
InitialPage ==
  [radius |-> 300, loading |-> FALSE, error |-> "none",
   userLocation |-> FALSE, restaurants |-> FALSE, phase |-> "idle"]

\* the request searchRestaurants sends: its URL, and the admission check of
\* the client gate that went before it (none is made)
SearchRequest(radius) ==
  [url |-> WebhookUrl, radius |-> radius,
   checks |-> calls, notLimited |-> calls > 0 /\ ~last.ret]

\* the radius slider is moved
SetRadius ==
  /\ \E r \in Radii \ {page.radius} : page' = [page EXCEPT !.radius = r]
  /\ UNCHANGED <<now, dispatched, clientVars, serverVars, storeVars,
                 tabVars, burstVars, timerVars>>

\* handleCTAClick -> searchRestaurants, up to its first await
SearchRestaurants ==
  /\ ~page.loading
  /\ Len(dispatched) < MaxSearches
  /\ IF page.userLocation
     THEN /\ page' = [page EXCEPT !.loading = TRUE, !.error = "none",
                                  !.restaurants = FALSE, !.phase = "fetching"]
          /\ dispatched' = Append(dispatched, SearchRequest(page.radius))
     ELSE /\ page' = [page EXCEPT !.loading = TRUE, !.error = "none",
                                  !.restaurants = FALSE, !.phase = "locating"]
          /\ UNCHANGED dispatched
  /\ UNCHANGED <<now, clientVars, serverVars, storeVars,
                 tabVars, burstVars, timerVars>>

\* getUserLocation() settles: the position, or a rejection
LocationSettled ==
  /\ page.phase = "locating"
  /\ \E ok \in BOOLEAN :
       IF ok
       THEN /\ page' = [page EXCEPT !.userLocation = TRUE,
                                    !.phase = "fetching"]
            /\ dispatched' = Append(dispatched, SearchRequest(page.radius))
       ELSE /\ page' = [page EXCEPT !.error = "location", !.loading = FALSE,
                                    !.phase = "idle"]
            /\ UNCHANGED dispatched
  /\ UNCHANGED <<now, clientVars, serverVars, storeVars,
                 tabVars, burstVars, timerVars>>

\* the fetch settles: the results, or an error
FetchSettled ==
  /\ page.phase = "fetching"
  /\ \E outcome \in {"ok", "http-error", "no-message"} :
       page' = [page EXCEPT !.restaurants = (outcome = "ok"),
                            !.error = IF outcome = "ok" THEN "none"
                                      ELSE outcome,
                            !.loading = FALSE,
                            !.phase = "idle"]
  /\ UNCHANGED <<now, dispatched, clientVars, serverVars, storeVars,
                 tabVars, burstVars, timerVars>>

(***************************************************************************)
(* The Redundant Counter Store on its own: writes that may fail, a backend *)
(* cleared from outside, reads                                             *)
(***************************************************************************)
\* number of operations made on the store in one behaviour
MaxStoreOps == 4

\* the backend whose write throws (quota exceeded, storage disabled), if any
Throwers == Backends \cup {"none"}

\* the records written to the store
StoreRecords ==
  {RequestRecord(0, c, "F1") : c \in 1..MaxConfigRequests}

\* setMultiStorage with one try around the three writes: the statements
\* after the one that throws are skipped, the exception is caught
SetMultiStorageTry(st, value, t, thrower) ==
  [store |->
     IF thrower = "local" THEN st
     ELSE IF thrower = "session" THEN [st EXCEPT !.local = value]
     ELSE IF thrower = "cookie"
       THEN [st EXCEPT !.local = value, !.session = value]
     ELSE SetMultiStorage(st, value, t),
   raised |-> FALSE]

\* removeItem(key) on one backend, or the cookie deleted
ClearBackend(st, b) ==
  IF b = "cookie" THEN [st EXCEPT !.cookie = NoItem, !.cookieExpires = 0]
  ELSE [st EXCEPT ![b] = NoItem]

\* an operation on the store: what it was, the backend it concerned, the
\* record text it wrote, read or removed, and the operation before it
Op(seq, kind, backend, value, raised, prior) ==
  [seq |-> seq, kind |-> kind, backend |-> backend, value |-> value,
   raised |-> raised, prior |-> prior]

NoOp == Op(0, "none", "none", NoItem, FALSE, <<"none", "none">>)

\* setMultiStorage(key, JSON.stringify(record))
StoreWrite ==
  /\ op.seq < MaxStoreOps
  /\ \E record \in StoreRecords, thrower \in Throwers :
       LET r == SetMultiStorageTry(storage, Stringify(record), now, thrower)
       IN /\ storage' = r.store
          /\ op' = Op(op.seq + 1, "write", thrower, Stringify(record),
                      r.raised, <<op.kind, op.backend>>)
  /\ UNCHANGED <<now, config, fingerprint, env, published, pending, last,
                 calls, admitLog>>
  /\ UNCHANGED <<serverVars, pageVars, tabVars, burstVars, timerVars>>

\* the record is deleted from one backend by the user or the browser
StoreDelete ==
  /\ op.seq < MaxStoreOps
  /\ \E b \in Backends :
       /\ Truthy(storage[b])
       /\ storage' = ClearBackend(storage, b)
       /\ op' = Op(op.seq + 1, "delete", b, storage[b], FALSE,
                   <<op.kind, op.backend>>)
  /\ UNCHANGED <<now, config, fingerprint, env, published, pending, last,
                 calls, admitLog>>
  /\ UNCHANGED <<serverVars, pageVars, tabVars, burstVars, timerVars>>

\* getMultiStorage(key)
StoreRead ==
  /\ op.seq < MaxStoreOps
  /\ LET got == GetMultiStorage(storage, now)
     IN /\ storage' = got.store
        /\ op' = Op(op.seq + 1, "read", "none", got.value, FALSE,
                    <<op.kind, op.backend>>)
  /\ UNCHANGED <<now, config, fingerprint, env, published, pending, last,
                 calls, admitLog>>
  /\ UNCHANGED <<serverVars, pageVars, tabVars, burstVars, timerVars>>

\* the clock advances; a cookie whose max-age ran out is dropped
StoreTick ==
  /\ \E t \in Times : t > now /\ now' = t
  /\ storage' = ExpireCookie(storage, now')
  /\ op' = IF storage' = storage THEN op
           ELSE Op(op.seq, "expire", "cookie", storage.cookie, FALSE,
                   <<op.kind, op.backend>>)
  /\ UNCHANGED <<config, fingerprint, env, published, pending, last, calls,
                 admitLog>>
  /\ UNCHANGED <<serverVars, pageVars, tabVars, burstVars, timerVars>>

(***************************************************************************)
(* Several tabs of one browser: localStorage and the cookie are shared,    *)
(* sessionStorage belongs to each tab; a checkRateLimit() call of a tab is *)
(* split where it has read the store and not yet written it                *)
(***************************************************************************)
\* number of tabs
MaxTabs == 2
\* calls the tabs make together
MaxTabCalls == 5
Tabs == 1..MaxTabs

\* a tab whose hook is mounted, its fingerprint generated and cached, and
\* whose mount effect found nothing stored
MountedTab(cfg, fp) ==
  [pc |-> "idle", fingerprint |-> fp, session |-> NoItem, stored |-> NoItem,
   at |-> 0, published |-> InitialPublished(cfg)]

\* the three backends as tab i sees them
TabView(i) == [storage EXCEPT !.session = tabs[i].session]

\* checkRateLimit of tab i up to line 114: the store is healed and read
TabRead(i) ==
  /\ tabs[i].pc = "idle"
  /\ calls < MaxTabCalls
  /\ calls' = calls + 1
  /\ ~FailsOpen(tabs[i].fingerprint)
  /\ ~Raises(TabView(i), tabs[i].fingerprint, now)
  /\ LET got == StoredText(TabView(i), tabs[i].fingerprint, now)
     IN /\ storage' = [got.store EXCEPT !.session = storage.session]
        /\ tabs' = [tabs EXCEPT ![i].pc = "read",
                                ![i].session = got.store.session,
                                ![i].stored = got.value,
                                ![i].at = now]
  /\ UNCHANGED <<now, config, fingerprint, env, published, pending, last,
                 admitLog>>
  /\ UNCHANGED <<serverVars, pageVars, storeVars, burstVars, timerVars>>

\* checkRateLimit of tab i from line 116 on: the decision on the text it
\* read, and the write
TabDecide(i) ==
  /\ tabs[i].pc = "read"
  /\ LET r == AfterRead(TabView(i), tabs[i].stored, config,
                        tabs[i].fingerprint, tabs[i].at)
     IN /\ storage' = [r.store EXCEPT !.session = storage.session]
        /\ tabs' = [tabs EXCEPT ![i].pc = "idle",
                                ![i].session = r.store.session,
                                ![i].published = r.published]
        /\ admitLog' = Retain(IF r.ret THEN admitLog
                              ELSE Append(admitLog, tabs[i].at),
                              storage', now)
  /\ UNCHANGED <<now, config, fingerprint, env, published, pending, last,
                 calls>>
  /\ UNCHANGED <<serverVars, pageVars, storeVars, burstVars, timerVars>>

EmptyStorage ==
  [local |-> NoItem, session |-> NoItem, cookie |-> NoItem,
   cookieExpires |-> 0, sessionFp |-> NoFingerprint]

ClientInit ==
  /\ config \in {[maxRequests |-> m, windowMs |-> WindowMs] :
                   m \in 1..MaxConfigRequests}
  /\ storage = EmptyStorage
  /\ fingerprint = NoFingerprint
  /\ env = "F1"
  /\ published = InitialPublished(config)
  /\ pending = [fingerprint |-> TRUE, mount |-> TRUE, read |-> NoItem]
  /\ last = Outcome(FALSE, FALSE, NoItem, FALSE, FALSE)
  /\ calls = 0
  /\ admitLog = <<>>

ServerInit ==
  /\ requestCounts = [id \in Identities |-> NoRecord]
  /\ handlers = [h \in Handlers |-> Idle]
  /\ response = [status |-> 0]
  /\ sent = 0
  /\ verdict = [headers |-> NoHeaders,
                clientId |-> NoIdentity, limited |-> FALSE,
                remainingRequests |-> 0, resetTime |-> NoTime]
  /\ serverLog = <<>>

PageInit ==
  /\ page = InitialPage
  /\ dispatched = <<>>

StoreInit == op = NoOp

TabsInit == tabs = [i \in Tabs |-> MountedTab(config, env)]

BurstInit == recent = [client |-> <<>>, server |-> <<>>]

\* setInterval is called when the module is loaded; nothing has fired yet
TimerInit == firings = 0

Init ==
  /\ now = 0
  /\ ClientInit
  /\ ServerInit
  /\ PageInit
  /\ StoreInit
  /\ TabsInit
  /\ BurstInit
  /\ TimerInit

(***************************************************************************)
(* Spec: one tab of the client gate                                        *)
(***************************************************************************)
Next ==
  \/ CheckRateLimit
  \/ FingerprintEffect
  \/ MountEffect
  \/ Reset
  \/ Remount
  \/ Tick

Spec == Init /\ [][Next]_vars

(***************************************************************************)
(* SpecServer: the route module serving concurrent requests                *)
(***************************************************************************)
ServerTick ==
  /\ \E t \in ServerTimes : t > now /\ now' = t
  /\ serverLog' = RetainServer(serverLog, requestCounts, now')
  /\ UNCHANGED <<requestCounts, handlers, response, verdict, sent>>
  /\ UNCHANGED <<clientVars, pageVars, storeVars, tabVars,
                 burstVars, timerVars>>

NextServer ==
  \/ GetStart
  \/ \E h \in Handlers : GetFinish(h)
  \/ Sweep
  \/ ServerTick

\* the hook is not running: its configuration is the product's
InitServer ==
  /\ Init
  /\ config.maxRequests = RateLimitMaxRequests

SpecServer == InitServer /\ [][NextServer]_vars

(***************************************************************************)
(* SpecPage: the page as the user drives it                                *)
(***************************************************************************)
NextPage ==
  \/ SetRadius
  \/ SearchRestaurants
  \/ LocationSettled
  \/ FetchSettled

SpecPage == InitServer /\ [][NextPage]_vars

(***************************************************************************)
(* SpecScenario: one tab on an empty store, calling checkRateLimit() at the *)
(* instants of the documented scenario                                     *)
(***************************************************************************)
\* the instants at which the scenario calls checkRateLimit()
ScenarioTimes == {0, 1000, 2000, WindowMs + 1}

\* the clock advances to a later instant of the scenario
ScenarioTick ==
  /\ \E t \in ScenarioTimes : t > now /\ now' = t
  /\ storage' = ExpireCookie(storage, now')
  /\ admitLog' = Retain(admitLog, storage', now')
  /\ UNCHANGED <<config, fingerprint, env, published, pending, last, calls>>
  /\ UNCHANGED <<serverVars, pageVars, storeVars, tabVars,
                 burstVars, timerVars>>

NextScenario ==
  \/ CheckRateLimit
  \/ FingerprintEffect
  \/ MountEffect
  \/ Reset
  \/ ScenarioTick

SpecScenario == Init /\ [][NextScenario]_vars

(***************************************************************************)
(* SpecTamper: one tab whose store is overwritten from outside and whose   *)
(* environment changes between page loads                                  *)
(***************************************************************************)
NextTamper ==
  \/ CheckRateLimit
  \/ FingerprintEffect
  \/ MountEffect
  \/ Reset
  \/ Remount
  \/ EnvChange
  \/ Tamper

SpecTamper == Init /\ [][NextTamper]_vars

(***************************************************************************)
(* SpecTabs: the tabs of one browser racing on the shared store            *)
(***************************************************************************)
NextTabs ==
  \/ \E i \in Tabs : TabRead(i)
  \/ \E i \in Tabs : TabDecide(i)

SpecTabs == Init /\ [][NextTabs]_vars

(***************************************************************************)
(* SpecStore: the Redundant Counter Store driven directly                  *)
(***************************************************************************)
NextStore ==
  \/ StoreWrite
  \/ StoreDelete
  \/ StoreRead
  \/ StoreTick

SpecStore == InitServer /\ [][NextStore]_vars

(***************************************************************************)
(* Properties of the client gate                                           *)
(***************************************************************************)
\* the record texts the three backends hold at time t
StoredItems(st, t) ==
  {item \in {st.local, st.session, CookieGet(st, t)} : Truthy(item)}

\* number of identified checkRateLimit() calls that returned false at or
\* after time ts
AdmittedSince(ts) ==
  Cardinality({i \in DOMAIN admitLog : admitLog[i] >= ts})

\* a step that is a checkRateLimit() call
CheckCalled == calls' = calls + 1

\* every backend that held a record holds the same text after the step
StoredUnchanged ==
  /\ Truthy(storage.local) => storage'.local = storage.local
  /\ Truthy(storage.session) => storage'.session = storage.session
  /\ Truthy(storage.cookie) => storage'.cookie = storage.cookie

\* C1: one tab, fingerprint available, storage untouched from outside: the
\* count stored in every backend is at most maxRequests, and so is the number
\* of checkRateLimit() calls admitted since the stored windowStart.
C1_ClientQuotaNeverExceeded ==
  \A item \in StoredItems(storage, now) :
    /\ Parse(item).count <= config.maxRequests
    /\ AdmittedSince(Parse(item).timestamp) <= config.maxRequests

\* C1 witness: the quota is used up in all three backends and a further call
\* was blocked.
C1_Witness ==
  /\ last.identified /\ last.ret
  /\ Cardinality(StoredItems(storage, now)) = 1
  /\ Truthy(storage.local) /\ Truthy(storage.session) /\ Truthy(storage.cookie)
  /\ Parse(storage.local).count = config.maxRequests
  /\ AdmittedSince(Parse(storage.local).timestamp) = config.maxRequests

\* the window of a stored record is open and maxRequests calls were admitted
\* in it
QuotaUsedUp ==
  \E item \in StoredItems(storage, now) :
    /\ now < Parse(item).timestamp + config.windowMs
    /\ AdmittedSince(Parse(item).timestamp) = config.maxRequests

\* C2 as stated: after maxRequests admitted calls inside one window, the next
\* checkRateLimit() call in that window returns true and leaves the stored
\* count and windowStart unchanged in every backend that holds the record.
C2_BlockedAfterQuota ==
  [][(CheckCalled /\ QuotaUsedUp) => (last'.ret /\ StoredUnchanged)]_vars

\* C2 amended: the same, for a call made while a fingerprint is available.
C2_BlockedAfterQuotaIdentified ==
  [][(CheckCalled /\ QuotaUsedUp /\ fingerprint # NoFingerprint)
       => (last'.ret /\ StoredUnchanged)]_vars

\* C2 witness: a call was blocked inside the window, after the window had
\* started, with the quota of the configuration stored.
C2_Witness ==
  /\ last.identified /\ last.ret
  /\ Truthy(last.read)
  /\ Parse(last.read).count = config.maxRequests
  /\ storage.local = last.read
  /\ now > Parse(last.read).timestamp
  /\ now < Parse(last.read).timestamp + config.windowMs
  /\ published = Published(TRUE, 0,
                           Parse(last.read).timestamp + config.windowMs)

\* a backend holds a record whose window has elapsed
ElapsedRecordStored ==
  \E item \in StoredItems(storage, now) :
    now >= Parse(item).timestamp + config.windowMs

\* after the step every backend holds a record with count 1 and windowStart
\* equal to the time of the call
FreshWindowStored ==
  \A item \in {storage'.local, storage'.session, storage'.cookie} :
    /\ Truthy(item)
    /\ Parse(item).count = 1
    /\ Parse(item).timestamp = now

\* C3 as stated: for every stored record and every pre-elapse count, a
\* checkRateLimit() call at now >= windowStart + windowMs returns false and
\* leaves a stored record with count 1 and windowStart now.
C3_ElapsedWindowResets ==
  [][(CheckCalled /\ ElapsedRecordStored)
       => (~last'.ret /\ FreshWindowStored)]_vars

\* C3 amended: the same, for a call made while a fingerprint is available.
C3_ElapsedWindowResetsIdentified ==
  [][(CheckCalled /\ ElapsedRecordStored /\ fingerprint # NoFingerprint)
       => (~last'.ret /\ FreshWindowStored)]_vars

\* C3 witness: a call read a record with the quota used up whose window had
\* elapsed, was admitted, and left the fresh record.
C3_Witness ==
  /\ last.identified /\ ~last.ret
  /\ Truthy(last.read)
  /\ Parse(last.read).count >= config.maxRequests
  /\ now >= Parse(last.read).timestamp + config.windowMs
  /\ storage.local = Stringify(RequestRecord(now, 1, fingerprint))
  /\ storage.session = storage.local
  /\ storage.cookie = storage.local

\* a step in which the mount-time effect ran
MountEffectRan == pending.mount /\ ~pending'.mount

\* every record a backend holds is inside its window
WindowStillOpen ==
  \A item \in StoredItems(storage, now) :
    now < Parse(item).timestamp + config.windowMs

\* C11: a run of the mount-time effect while the window is open leaves the
\* record of every backend that held one as it was, and a backend it fills
\* receives a count that was already stored: the view consumes no quota,
\* however often it runs.
C11_MountEffectKeepsCount ==
  [][(MountEffectRan /\ WindowStillOpen)
       => \A b \in Backends :
            /\ Truthy(storage[b]) => storage'[b] = storage[b]
            /\ Truthy(storage'[b])
                 => \E item \in StoredItems(storage, now) :
                      Parse(storage'[b]).count = Parse(item).count]_vars

\* C11 witness: after an admitted call used the quota up, the page was loaded
\* again and the mount-time effect published the limit from the stored
\* record, whose count is still the quota.
C11_Witness ==
  /\ published.isLimited
  /\ last.identified /\ ~last.ret
  /\ ~pending.mount /\ fingerprint # NoFingerprint
  /\ \A b \in Backends :
       /\ Truthy(storage[b])
       /\ Parse(storage[b]).count = config.maxRequests
       /\ now < Parse(storage[b]).timestamp + config.windowMs
  /\ AdmittedSince(Parse(storage.local).timestamp) = config.maxRequests

\* C16: while the fingerprint is empty a checkRateLimit() call returns false
\* without raising, whatever is stored, and changes neither a backend nor
\* the published state.
C16_FailsOpenUnidentified ==
  [][(CheckCalled /\ fingerprint = NoFingerprint)
       => /\ ~last'.ret /\ ~last'.raised
          /\ storage' = storage
          /\ published' = published]_vars

\* C16 witness: the last call was made without a fingerprint while the quota
\* of an open window was used up in storage, and the fingerprint is still
\* missing.
C16_Witness ==
  /\ calls > 0
  /\ ~last.identified /\ ~last.ret
  /\ fingerprint = NoFingerprint
  /\ QuotaUsedUp
  /\ Truthy(storage.local)
  /\ Parse(storage.local).count = config.maxRequests

\* a step that is a reset() call
ResetCalled ==
  /\ storage' = RemoveItems(storage)
  /\ published' = Published(FALSE, config.maxRequests, NoTime)
  /\ UNCHANGED <<now, config, fingerprint, env, pending, last, calls>>

\* C17: after reset() no backend holds the record and the published state is
\* fresh, so that a checkRateLimit() call made next is admitted and
\* publishes remainingRequests = maxRequests - 1.
C17_ResetClearsEveryBackend ==
  [][ResetCalled
       => /\ \A b \in Backends : ~Truthy(storage'[b])
          /\ published' = Published(FALSE, config.maxRequests, NoTime)
          /\ fingerprint # NoFingerprint
               => LET r == CheckRateLimitBody(storage', config, fingerprint,
                                              now)
                  IN /\ ~r.ret
                     /\ r.published.remainingRequests
                          = config.maxRequests - 1]_vars

(***************************************************************************)
(* Properties of the server gate and proxy                                 *)
(***************************************************************************)
\* the log entries of identity id at or after time ts
EntriesSince(id, ts) ==
  {i \in DOMAIN serverLog :
     serverLog[i].clientId = id /\ serverLog[i].time >= ts}

\* number of requests of identity id admitted at or after time ts
ServerAdmittedSince(id, ts) ==
  Cardinality({i \in EntriesSince(id, ts) : serverLog[i].admitted})

\* number of upstream fetches issued for identity id at or after time ts
FetchedSince(id, ts) ==
  Cardinality({i \in EntriesSince(id, ts) : serverLog[i].fetched})

\* a step in which GET received a request of identity id
Requested(id) == sent' = sent + 1 /\ verdict'.clientId = id

\* the record of id exists and its window is open: now - windowStart < windowMs
InsideWindow(id) ==
  /\ requestCounts[id] # NoRecord
  /\ now - requestCounts[id].timestamp < WindowMs

\* C4: whatever the interleaving of GET handlers, the requests admitted for
\* one identity within one window never exceed maxRequests.
C4_ServerQuotaNeverExceeded ==
  \A id \in Identities :
    requestCounts[id] # NoRecord =>
      /\ requestCounts[id].count <= RateLimitMaxRequests
      /\ ServerAdmittedSince(id, requestCounts[id].timestamp)
           <= RateLimitMaxRequests

\* C4 witness: two handlers are in flight for one identity at once, both
\* admitted, and a further request of that identity was denied meanwhile.
C4_Witness ==
  \E g, h \in Handlers :
    /\ g # h
    /\ handlers[g].pc = "fetching" /\ handlers[h].pc = "fetching"
    /\ handlers[g].clientId = handlers[h].clientId
    /\ verdict.limited /\ verdict.clientId = handlers[g].clientId
    /\ ServerAdmittedSince(verdict.clientId,
                           requestCounts[verdict.clientId].timestamp)
         = RateLimitMaxRequests

\* C5: a request of an identity with no record, or whose window has elapsed
\* (now - windowStart >= windowMs), is admitted and installs a fresh record
\* with count 1 and windowStart now.
C5_FreshWindowInstalled ==
  [][\A id \in Identities :
       (Requested(id) /\ ~InsideWindow(id))
         => /\ ~verdict'.limited
            /\ requestCounts'[id] = [count |-> 1, timestamp |-> now]]_vars

\* C6: a request that finds a record inside its window with count >=
\* maxRequests is reported limited, with no remaining request and the reset
\* time windowStart + windowMs, and the map is left as it was.
C6_DenialLeavesRecord ==
  [][\A id \in Identities :
       (Requested(id) /\ InsideWindow(id)
          /\ requestCounts[id].count >= RateLimitMaxRequests)
         => /\ verdict'.limited
            /\ verdict'.remainingRequests = 0
            /\ verdict'.resetTime = requestCounts[id].timestamp + WindowMs
            /\ requestCounts' = requestCounts]_vars

\* C6 witness: a request was denied after its window had started and before
\* it ended, and the record still holds the count and the windowStart.
C6_Witness ==
  /\ verdict.limited
  /\ verdict.remainingRequests = 0
  /\ verdict.clientId \in Identities
  /\ requestCounts[verdict.clientId].count = RateLimitMaxRequests
  /\ now > requestCounts[verdict.clientId].timestamp
  /\ now < verdict.resetTime

\* C7: every 429 for a request that arrives inside the window carries a
\* strictly positive Retry-After, X-RateLimit-Remaining 0 and
\* X-RateLimit-Reset = windowStart + windowMs.
C7_PositiveRetryAfter ==
  [][\A id \in Identities :
       (Requested(id) /\ InsideWindow(id) /\ verdict'.limited)
         => /\ response'.status = 429
            /\ response'.retryAfter > 0
            /\ response'.remaining = 0
            /\ response'.reset = requestCounts[id].timestamp + WindowMs]_vars

\* C8: in one window the k-th admitted request of an identity reports
\* remaining = maxRequests - k, the header of its 200 response carries that
\* number, and the request after the maxRequests-th is denied with 0.
C8_RemainingCountsDown ==
  [][/\ \A id \in Identities :
          /\ (Requested(id) /\ requestCounts[id] = NoRecord)
               => /\ ~verdict'.limited
                  /\ verdict'.remainingRequests = RateLimitMaxRequests - 1
          /\ (Requested(id) /\ InsideWindow(id))
               => LET k == ServerAdmittedSince(
                             id, requestCounts[id].timestamp) + 1
                  IN IF k <= RateLimitMaxRequests
                     THEN /\ ~verdict'.limited
                          /\ verdict'.remainingRequests
                               = RateLimitMaxRequests - k
                     ELSE /\ verdict'.limited
                          /\ verdict'.remainingRequests = 0
     /\ \A h \in Handlers :
          /\ (handlers[h] = Idle /\ handlers'[h] # Idle)
               => handlers'[h].remainingRequests = verdict'.remainingRequests
          /\ (handlers[h] # Idle /\ handlers'[h] = Idle
                /\ response'.status = 200)
               => response'.remaining = handlers[h].remainingRequests]_vars

\* C8 witness: the second request of the window was answered 200 with
\* remaining 0 and the third request of the same identity was denied.
C8_Witness ==
  /\ response.status = 200
  /\ response.remaining = 0
  /\ verdict.limited
  /\ verdict.remainingRequests = 0
  /\ verdict.clientId = response.clientId
  /\ ServerAdmittedSince(verdict.clientId,
                         requestCounts[verdict.clientId].timestamp)
       = RateLimitMaxRequests

\* at most maxRequests upstream fetches per identity and window
FetchesBounded ==
  \A id \in Identities :
    requestCounts[id] # NoRecord =>
      FetchedSince(id, requestCounts[id].timestamp) <= RateLimitMaxRequests

\* C9: the upstream fetch is issued only by a request the gate admitted, a
\* denied request never starts one, and so at most maxRequests fetches are
\* issued for an identity within one window.
C9_FetchOnlyAfterAdmission ==
  [][/\ \A h \in Handlers :
          (handlers[h] = Idle /\ handlers'[h] # Idle)
            => /\ ~verdict'.limited
               /\ verdict'.clientId = handlers'[h].clientId
     /\ (sent' = sent + 1 /\ verdict'.limited)
          => /\ handlers' = handlers
             /\ response'.status = 429
     /\ \A i \in DOMAIN serverLog' : serverLog'[i].fetched
                                       => serverLog'[i].admitted
     /\ FetchesBounded']_vars

\* C9 witness: maxRequests fetches were issued in the window of an identity
\* and the next request of that identity was answered 429 without a fetch.
C9_Witness ==
  /\ response.status = 429
  /\ verdict.limited
  /\ verdict.clientId = response.clientId
  /\ FetchedSince(verdict.clientId, requestCounts[verdict.clientId].timestamp)
       = RateLimitMaxRequests
  /\ \A h \in Handlers : handlers[h] = Idle

(***************************************************************************)
(* Properties of the page                                                  *)
(***************************************************************************)
\* C10: every search the page dispatches follows a client gate check that
\* returned not-limited, and goes to the Upstream Proxy, which the server
\* gate guards.
C10_SearchPassesBothGates ==
  \A i \in DOMAIN dispatched :
    /\ dispatched[i].checks > 0
    /\ dispatched[i].notLimited
    /\ dispatched[i].url = ProxyUrl

(***************************************************************************)
(* Properties of the Redundant Counter Store                               *)
(***************************************************************************)
\* a step that is an operation of the given kind on the store
StoreStep(kind) == op'.seq = op.seq + 1 /\ op'.kind = kind

\* C12: after a write of a record to all three backends and the deletion of
\* the record from one backend, whichever it is, one read returns the record
\* written and leaves that backend holding it again.
C12_ReadRepopulatesDeletedBackend ==
  [][(StoreStep("read") /\ op.kind = "delete"
        /\ op.prior = <<"write", "none">>)
       => /\ op'.value = op.value
          /\ storage'[op.backend] = op.value]_vars

\* C13: a write in which the write to one backend fails does not raise, and
\* the two other backends hold the written text afterwards.
C13_FailedWriteSparesOthers ==
  [][(StoreStep("write") /\ op'.backend # "none")
       => /\ ~op'.raised
          /\ \A b \in Backends \ {op'.backend} :
               storage'[b] = op'.value]_vars

\* the text of the highest-priority backend that holds one at time t, or
\* NoItem
HighestPriority(st, t) ==
  IF Truthy(st.local) THEN st.local
  ELSE IF Truthy(st.session) THEN st.session
  ELSE CookieGet(st, t)

\* C14: whatever backends hold a record, a read returns the text of the
\* highest-priority one that does (localStorage, sessionStorage, cookie),
\* returns nothing exactly when none does, writes the text into each
\* higher-priority backend, which lacked it, and changes nothing else.
C14_ReadPriorityAndBackfill ==
  [][StoreStep("read")
       => LET hit == HighestPriority(storage, now)
          IN /\ op'.value = hit
             /\ ~Truthy(op'.value)
                  <=> \A b \in Backends : ~Truthy(storage[b])
                                             \/ (b = "cookie"
                                                   /\ now >= storage.cookieExpires)
             /\ storage'.local = IF Truthy(storage.local) THEN storage.local
                                 ELSE hit
             /\ storage'.session =
                  IF Truthy(storage.local) \/ Truthy(storage.session)
                  THEN storage.session ELSE hit
             /\ storage'.cookie = storage.cookie
             /\ storage'.cookieExpires = storage.cookieExpires]_vars

\* C14 witness: localStorage was cleared while sessionStorage and the cookie
\* held different records; the read returned the text of sessionStorage and
\* wrote it into localStorage, the cookie keeps its own.
C14_Witness ==
  /\ op.kind = "read"
  /\ op.prior = <<"delete", "local">>
  /\ Truthy(op.value)
  /\ storage.local = op.value
  /\ storage.session = op.value
  /\ Truthy(storage.cookie)
  /\ storage.cookie # op.value

(***************************************************************************)
(* Properties of the client gate under outside interference                *)
(***************************************************************************)
\* C15: a checkRateLimit() call that finds a stored text which is not a
\* parsable record does not raise, discards it and is admitted with a fresh
\* window: it returns false and leaves a record with count 1 and windowStart
\* now.
C15_MalformedRecordFailsOpen ==
  [][(CheckCalled /\ fingerprint # NoFingerprint
        /\ HighestPriority(storage, now) = Garbage)
       => /\ ~last'.raised
          /\ ~last'.ret
          /\ FreshWindowStored]_vars

\* every record stored is parsable and stamped with fingerprint fp, and
\* there is one
StampedWith(fp) ==
  /\ StoredItems(storage, now) # {}
  /\ \A item \in StoredItems(storage, now) :
       Parsable(item) /\ Parse(item).fingerprint = fp

\* C19: when the stored record is stamped with a fingerprint other than the
\* current one, detectManipulation returns true, and checkRateLimit() returns
\* and publishes (isLimited, remainingRequests) what it would with the
\* fingerprint of the stamp.
C19_MismatchSurfacedNotEnforced ==
  \A stamp \in Fingerprints :
    (fingerprint # NoFingerprint /\ fingerprint # stamp /\ StampedWith(stamp))
      => LET same == CheckRateLimitBody(storage, config, stamp, now)
             other == CheckRateLimitBody(storage, config, fingerprint, now)
         IN /\ DetectManipulation(storage, fingerprint).flag
            /\ other.ret = same.ret
            /\ other.published.isLimited = same.published.isLimited
            /\ other.published.remainingRequests
                 = same.published.remainingRequests

(***************************************************************************)
(* The documented scenario of the client gate                              *)
(***************************************************************************)
\* all three backends hold the record {timestamp: ts, count: c} stamped with
\* the current fingerprint
AllHold(ts, c) ==
  \A b \in Backends :
    storage[b] = Stringify(RequestRecord(ts, c, fingerprint))

\* a call of the scenario made at time t on the store described by before
\* returns ret and publishes remainingRequests remaining
ScenarioStep(t, before, ret, remaining) ==
  (config.maxRequests = 2 /\ now = t /\ before)
    => /\ ~last'.raised
       /\ last'.ret = ret
       /\ published'.isLimited = ret
       /\ published'.remainingRequests = remaining

\* number of admitted calls, the one of this step included, since the
\* windowStart stored after the step
AdmittedInWindowAfter ==
  IF Truthy(storage'.local)
  THEN Cardinality({i \in DOMAIN admitLog' :
                      admitLog'[i] >= Parse(storage'.local).timestamp})
  ELSE 0

\* the four calls of the scenario, and the general rule behind them
ScenarioHolds ==
  /\ ScenarioStep(0, \A b \in Backends : ~Truthy(storage[b]), FALSE, 1)
  /\ ScenarioStep(1000, AllHold(0, 1), FALSE, 0)
  /\ ScenarioStep(2000, AllHold(0, 2), TRUE, 0)
  /\ (config.maxRequests = 2 /\ now = 2000 /\ AllHold(0, 2))
       => published'.resetTime = WindowMs
  /\ ScenarioStep(WindowMs + 1, AllHold(0, 2), FALSE, 1)
  /\ ~last'.ret
       => published'.remainingRequests
            = config.maxRequests - AdmittedInWindowAfter

\* C18 as stated: with maxRequests = 2 and windowMs = 86400000 on an empty
\* store, the call at t=0 is admitted with 1 remaining, the call at t=1000
\* is admitted with 0 remaining, the call at t=2000 is blocked with 0
\* remaining and resetTime 86400000, the call at t=86400001 is admitted with
\* 1 remaining; and for every configuration the k-th admitted call of a
\* window publishes remainingRequests = maxRequests - k.
C18_ConcreteScenario ==
  [][CheckCalled => ScenarioHolds]_vars

\* C18 amended: the same, for calls made while a fingerprint is available.
C18_ConcreteScenarioIdentified ==
  [][(CheckCalled /\ fingerprint # NoFingerprint) => ScenarioHolds]_vars

\* C18 witness: the fourth call, made at t=86400001 after the two admitted
\* calls of the window opened at 0 and a blocked one, read the record with
\* count 2, was admitted and published 1 remaining request.
C18_Witness ==
  /\ config.maxRequests = 2
  /\ calls = 4
  /\ now = WindowMs + 1
  /\ last.identified /\ ~last.ret
  /\ last.read = Stringify(RequestRecord(0, 2, fingerprint))
  /\ AllHold(WindowMs + 1, 1)
  /\ published = Published(FALSE, 1, NoTime)
  /\ admitLog = <<WindowMs + 1>>

(***************************************************************************)
(* Properties of several tabs racing on the store                          *)
(***************************************************************************)
\* the record texts held by the shared backends and by the sessionStorage of
\* each tab
TabStoredItems ==
  {item \in {storage.local, CookieGet(storage, now)}
            \cup {tabs[i].session : i \in Tabs} : Truthy(item)}

\* C20: with tabs interleaving between the read and the write of the store,
\* a tab writes the count it read plus one: the stored count never exceeds
\* maxRequests nor the number of calls admitted in the window, and nothing
\* bounds the admitted calls by maxRequests (the witness exceeds it).
C20_RacingTabsLoseIncrements ==
  \A item \in TabStoredItems :
    /\ Parse(item).count <= config.maxRequests
    /\ Parse(item).count <= AdmittedSince(Parse(item).timestamp)

\* C20 witness: two tabs read the same count and both incremented it; more
\* than maxRequests calls were admitted in the window that is still open,
\* and no call is in progress.
C20_Witness ==
  /\ \A i \in Tabs : tabs[i].pc = "idle"
  /\ Truthy(storage.local)
  /\ now < Parse(storage.local).timestamp + config.windowMs
  /\ AdmittedSince(Parse(storage.local).timestamp) > config.maxRequests
  /\ \E i, j \in Tabs :
       /\ i # j
       /\ tabs[i].stored = tabs[j].stored
       /\ ~tabs[i].published.isLimited /\ ~tabs[j].published.isLimited
       /\ tabs[i].published.remainingRequests
            = tabs[j].published.remainingRequests

(***************************************************************************)
(* SpecIdentity: the identity deriver applied to requests with every       *)
(* combination of present and absent headers                               *)
(***************************************************************************)
\* the header sets of the requests the deriver is applied to
HeaderChoices ==
  {[forwarded |-> f, realIP |-> r, clientIP |-> c, userAgent |-> u] :
     f \in {<<>>,
            <<Hop("203.0.113.5", FALSE)>>,
            <<Hop("198.51.100.9", TRUE), Hop("10.0.0.1", TRUE)>>},
     r \in {NoHeader, "198.51.100.7"},
     c \in {NoHeader, "192.0.2.44"},
     u \in {NoUserAgent,
            UserAgent("curl/8.5.0", ""),
            UserAgent("Mozilla/5.0 ", "(X11; Linux x86_64)"),
            UserAgent("Mozilla/5.0 ", "(Windows NT 10.0; Win64)")}}

\* const clientId = getClientIdentifier(request) of GET
DeriveIdentity ==
  /\ sent < MaxServerRequests
  /\ sent' = sent + 1
  /\ \E h \in HeaderChoices, c \in Connections :
       verdict' = [verdict EXCEPT
                     !.headers = h,
                     !.clientId = GetClientIdentifier(Request(h, c))]
  /\ UNCHANGED <<now, requestCounts, handlers, response, serverLog>>
  /\ UNCHANGED <<clientVars, pageVars, storeVars, tabVars,
                 burstVars, timerVars>>

NextIdentity == DeriveIdentity

SpecIdentity == InitServer /\ [][NextIdentity]_vars

(***************************************************************************)
(* SpecHeal: the hook over a store that is cleared or overwritten in part  *)
(* from outside, with detectManipulation() also called by the page         *)
(***************************************************************************)
\* one backend is cleared from outside the hook (the user clears site data
\* of one kind, a new session starts, the cookie is deleted)
ClearOutside ==
  /\ \E b \in Backends :
       /\ Truthy(storage[b])
       /\ storage' = ClearBackend(storage, b)
  /\ admitLog' = Retain(admitLog, storage', now)
  /\ UNCHANGED <<now, config, fingerprint, env, published, pending, last,
                 calls>>
  /\ UNCHANGED <<serverVars, pageVars, storeVars, tabVars,
                 burstVars, timerVars>>

\* detectManipulation() called through the object the hook returns
DetectManipulationCalled ==
  /\ storage' = DetectManipulation(storage, fingerprint).store
  /\ last' = [last EXCEPT
                !.flag = DetectManipulation(storage, fingerprint).flag]
  /\ admitLog' = Retain(admitLog, storage', now)
  /\ UNCHANGED <<now, config, fingerprint, env, published, pending, calls>>
  /\ UNCHANGED <<serverVars, pageVars, storeVars, tabVars,
                 burstVars, timerVars>>

NextHeal ==
  \/ CheckRateLimit
  \/ DetectManipulationCalled
  \/ FingerprintEffect
  \/ MountEffect
  \/ Remount
  \/ EnvChange
  \/ Tamper
  \/ ClearOutside

SpecHeal == Init /\ [][NextHeal]_vars

(***************************************************************************)
(* SpecGates: the client gate and the server gate driven by one sequence   *)
(* of call times, one tab and one identity                                 *)
(***************************************************************************)
\* the identity of the one client whose requests the server gate is given
GateClient == GetClientIdentifier(Request(NoHeaders, 1))

\* checkRateLimit() in the browser and isRateLimited(clientId) on the server
\* are called at the same instant
BothGatesCalled ==
  /\ fingerprint # NoFingerprint
  /\ CheckRateLimitCall
  /\ LET r == IsRateLimited(requestCounts, GateClient, now)
     IN /\ requestCounts' = r.counts
        /\ verdict' = [headers |-> NoHeaders,
                       clientId |-> GateClient, limited |-> r.limited,
                       remainingRequests |-> r.remainingRequests,
                       resetTime |-> r.resetTime]
  /\ sent' = sent + 1
  /\ UNCHANGED <<handlers, response, serverLog>>
  /\ UNCHANGED <<pageVars, storeVars, tabVars, burstVars, timerVars>>

NextGates ==
  \/ FingerprintEffect
  \/ MountEffect
  \/ BothGatesCalled
  \/ Tick

\* the hook is configured with the quota of the server
SpecGates == InitServer /\ [][NextGates]_vars

(***************************************************************************)
(* SpecWindows: one tab of the client gate and one identity of the server  *)
(* gate, each called at any time of one clock                              *)
(***************************************************************************)
\* number of requests the one identity sends in one behaviour
MaxWindowRequests == 5

\* the admitted calls that lie in the interval of length windowMs ending at t
Lately(log, t) == SelectSeq(log, LAMBDA e : e.time >= t - WindowMs)

\* checkRateLimit() of the one tab
WindowCheck ==
  /\ CheckRateLimitCall
  /\ recent' = [recent EXCEPT !.client =
                  Lately(IF last'.ret THEN @
                         ELSE Append(@, [time |-> now,
                                         identified |-> last'.identified]),
                         now)]
  /\ UNCHANGED <<serverVars, pageVars, storeVars, tabVars, timerVars>>

\* isRateLimited(clientId) of a request of the one identity
WindowRequest ==
  /\ sent < MaxWindowRequests
  /\ sent' = sent + 1
  /\ LET r == IsRateLimited(requestCounts, GateClient, now)
     IN /\ requestCounts' = r.counts
        /\ verdict' = [headers |-> NoHeaders,
                       clientId |-> GateClient, limited |-> r.limited,
                       remainingRequests |-> r.remainingRequests,
                       resetTime |-> r.resetTime]
        /\ recent' = [recent EXCEPT !.server =
                        Lately(IF r.limited THEN @
                               ELSE Append(@, [time |-> now]), now)]
  /\ UNCHANGED <<now, handlers, response, serverLog>>
  /\ UNCHANGED <<clientVars, pageVars, storeVars, tabVars, timerVars>>

\* the instants at which the two gates are called: the first two
\* milliseconds of every window counted from 0
WindowTimes == {k * WindowMs + o : k \in 0..MaxWindows, o \in {0, 1}}

\* the clock advances to a later instant
WindowTick ==
  /\ \E t \in WindowTimes : t > now /\ now' = t
  /\ storage' = ExpireCookie(storage, now')
  /\ admitLog' = Retain(admitLog, storage', now')
  /\ recent' = [client |-> Lately(recent.client, now'),
                server |-> Lately(recent.server, now')]
  /\ UNCHANGED <<config, fingerprint, env, published, pending, last, calls>>
  /\ UNCHANGED <<serverVars, pageVars, storeVars, tabVars, timerVars>>

NextWindows ==
  \/ FingerprintEffect
  \/ MountEffect
  \/ WindowCheck
  \/ WindowRequest
  \/ WindowTick

SpecWindows == Init /\ [][NextWindows]_vars

(***************************************************************************)
(* SpecSweep: the map of the route module with the sweep driven by its     *)
(* timer: setInterval(callback, RATE_LIMIT.windowMs) is called when the    *)
(* module is loaded (time 0) and the timer is taken to fire on time, every *)
(* windowMs; the clock cannot pass a firing that is due                    *)
(***************************************************************************)
\* number of whole windows the clock runs through
MaxSweepWindows == 4
\* number of requests in one behaviour
MaxSweepRequests == 3

SweepTimes == {k * WindowMs + o : k \in 0..MaxSweepWindows, o \in {0, 1}}

\* requests arrive until three windows before the clock stops
LastRequestTime == (MaxSweepWindows - 3) * WindowMs + 1

\* mutant of NextFiring: the timer fires every second windowMs
NextFiringSlow(n) == (n + 1) * (WindowMs * 2)

\* the time of the firing that follows n firings of a timer of period
\* RATE_LIMIT.windowMs started at time 0
NextFiring(n) == (n + 1) * WindowMs

\* isRateLimited for a request of identity id
SweepRequest ==
  /\ sent < MaxSweepRequests
  /\ now <= LastRequestTime
  /\ sent' = sent + 1
  /\ \E id \in Identities :
       LET r == IsRateLimited(requestCounts, id, now)
       IN /\ requestCounts' = r.counts
          /\ verdict' = [verdict EXCEPT
                           !.clientId = id, !.limited = r.limited,
                           !.remainingRequests = r.remainingRequests,
                           !.resetTime = r.resetTime]
  /\ UNCHANGED <<now, handlers, response, serverLog>>
  /\ UNCHANGED <<clientVars, pageVars, storeVars, tabVars, burstVars,
                 timerVars>>

\* the timer is due: the callback runs
TimerFires ==
  /\ now = NextFiring(firings)
  /\ firings' = firings + 1
  /\ SweepCallback
  /\ UNCHANGED <<clientVars, pageVars, storeVars, tabVars, burstVars>>

\* time passes, up to the next firing of the timer
SweepClock ==
  /\ \E t \in SweepTimes :
       /\ t > now
       /\ t <= NextFiring(firings)
       /\ now' = t
  /\ UNCHANGED <<requestCounts, handlers, response, verdict, sent,
                 serverLog>>
  /\ UNCHANGED <<clientVars, pageVars, storeVars, tabVars, burstVars,
                 timerVars>>

NextSweep ==
  \/ SweepRequest
  \/ TimerFires
  \/ SweepClock

SpecSweep == InitServer /\ [][NextSweep]_vars

\* the timer fires when it is due, and time passes
SpecSweepFair ==
  /\ SpecSweep
  /\ WF_vars(TimerFires)
  /\ WF_vars(SweepClock)

(***************************************************************************)
(* Claims C21..C30                                                         *)
(***************************************************************************)
\* a run of the sweep that removed at least one record
SweepRemoved == sent' = sent /\ requestCounts' # requestCounts

\* what isRateLimited returns to the caller, and the record it leaves
ResultOf(counts, id, t) ==
  [limited |-> IsRateLimited(counts, id, t).limited,
   remainingRequests |-> IsRateLimited(counts, id, t).remainingRequests,
   resetTime |-> IsRateLimited(counts, id, t).resetTime,
   record |-> IsRateLimited(counts, id, t).counts[id]]

\* C21: server eviction does not affect admission: whenever a sweep removes
\* records, every identity's next request, at whatever later time it comes,
\* gets from isRateLimited the same limited, remainingRequests and resetTime,
\* and leaves the same record, as it would have got had the sweep not run; so
\* by induction over the requests a sequence with sweeps placed anywhere gets
\* the results of the same sequence without them.
C21_SweepNeverChangesResult ==
  [][SweepRemoved
       => \A id \in Identities : \A t \in ServerTimes :
            t >= now => ResultOf(requestCounts', id, t)
                          = ResultOf(requestCounts, id, t)]_vars

\* C21 witness: a sweep removed the record of an identity whose request is
\* still waiting for the upstream, and the identity's latest request, made
\* more than two windows after the first, was admitted on a fresh record.
C21_Witness ==
  \E h \in Handlers : \E id \in Identities :
    /\ handlers[h].pc = "fetching"
    /\ handlers[h].clientId # id
    /\ requestCounts[handlers[h].clientId] = NoRecord
    /\ verdict.clientId = id
    /\ ~verdict.limited
    /\ requestCounts[id] = [count |-> 1, timestamp |-> now]
    /\ now > WindowMs * 2

\* the entries of the log that requests with the given headers left
EntriesWith(headers) ==
  {i \in DOMAIN serverLog : serverLog[i].headers = headers}

\* C22: the identity deriver is deterministic: every request with the same
\* x-forwarded-for, x-real-ip, x-client-ip and user-agent headers, whenever
\* it was made and on whatever connection it came, was given the one
\* identity a request with these headers is given now, and the requests with
\* these headers are counted on one record: those admitted in its window are
\* no more than its count, which is at most maxRequests.
C22_SameHeadersSameIdentity ==
  \A request \in Requests :
    LET headers == HeadersOf(request)
        id == GetClientIdentifier(request)
    IN /\ \A i \in EntriesWith(headers) : serverLog[i].clientId = id
       /\ (sent > 0 /\ verdict.headers = headers) => verdict.clientId = id
       /\ requestCounts[id] # NoRecord
            => /\ Cardinality({i \in EntriesWith(headers) :
                                 /\ serverLog[i].admitted
                                 /\ serverLog[i].time
                                      >= requestCounts[id].timestamp})
                    <= requestCounts[id].count
               /\ requestCounts[id].count <= RateLimitMaxRequests

\* C22 witness: two requests with the same headers were admitted at
\* different times on one record, which is thereby used up, and the third
\* request with these headers was denied.
C22_Witness ==
  \E headers \in RequestHeaders :
    /\ verdict.headers = headers
    /\ verdict.limited
    /\ requestCounts[verdict.clientId].count = RateLimitMaxRequests
    /\ \E i, j \in EntriesWith(headers) :
         /\ serverLog[i].admitted /\ serverLog[j].admitted
         /\ serverLog[i].time = requestCounts[verdict.clientId].timestamp
         /\ serverLog[j].time > serverLog[i].time

\* a run of the effect of useBrowserFingerprint
FingerprintEffectRan == pending.fingerprint /\ ~pending'.fingerprint

C24_GatesAgree ==
  [][(calls' = calls + 1)
       => /\ last'.ret = verdict'.limited
          /\ published'.remainingRequests = verdict'.remainingRequests
          /\ last'.ret => published'.resetTime = verdict'.resetTime]_vars

\* C25: whenever checkRateLimit() returns true it has published
\* isLimited = true, remainingRequests = 0 and resetTime = windowStart +
\* windowMs of the record that is stored.
C25_BlockedCallPublishes ==
  [][(CheckCalled /\ last'.ret)
       => /\ Truthy(storage'.local)
          /\ published' = Published(TRUE, 0,
                                    Parse(storage'.local).timestamp
                                      + config.windowMs)]_vars

\* C25 witness: a call made in the last millisecond of a window whose quota
\* of two is used up returned true and published the end of that window.
C25_Witness ==
  /\ last.identified /\ last.ret
  /\ config.maxRequests = 2
  /\ Truthy(storage.local)
  /\ Parse(storage.local).count = 2
  /\ now = Parse(storage.local).timestamp + config.windowMs - 1
  /\ published = Published(TRUE, 0, now + 1)

\* every backend holds the record (windowStart ts, count c) stamped with the
\* current fingerprint after the step, the cookie unexpired
AllHoldAfter(ts, c) ==
  /\ \A b \in Backends :
       storage'[b] = Stringify(RequestRecord(ts, c, fingerprint))
  /\ now < storage'.cookieExpires

\* C26: whenever checkRateLimit() returns false with a fingerprint available
\* (no backend write failing), all three backends hold one identical record
\* afterwards, stamped with the current fingerprint, whose count is the count
\* that was stored plus one inside an open window, and 1 on a fresh or
\* elapsed window.
C26_AdmittedCallStores ==
  [][(CheckCalled /\ fingerprint # NoFingerprint /\ ~last'.ret)
       => LET before == HighestPriority(storage, now)
          IN IF Truthy(before)
                /\ now < Parse(before).timestamp + config.windowMs
             THEN AllHoldAfter(Parse(before).timestamp,
                               Parse(before).count + 1)
             ELSE AllHoldAfter(now, 1)]_vars

\* C26 witness: a call made later in an open window read the count 1 and was
\* admitted; all three backends hold the count 2 of that window.
C26_Witness ==
  /\ last.identified /\ ~last.ret
  /\ Truthy(last.read)
  /\ Parse(last.read).count = 1
  /\ now > Parse(last.read).timestamp
  /\ AllHold(Parse(last.read).timestamp, 2)
  /\ now < storage.cookieExpires
  /\ published.remainingRequests = config.maxRequests - 2

\* the mount-time effect ran and read a record whose window has elapsed
MountEffectReadElapsed ==
  /\ MountEffectRan
  /\ Truthy(HighestPriority(storage, now))
  /\ now >= Parse(HighestPriority(storage, now)).timestamp + config.windowMs

\* C27: when the mount-time effect reads a record whose window has elapsed,
\* the record is afterwards absent from all three backends, a following read
\* returns absent, and the published state is fresh: not limited,
\* remainingRequests = maxRequests, no resetTime.
C27_MountEffectClearsElapsed ==
  [][MountEffectReadElapsed
       => /\ StoredItems(storage', now) = {}
          /\ GetMultiStorage(storage', now).value = NoItem
          /\ published' = Published(FALSE, config.maxRequests, NoTime)]_vars

\* the mount-time effect ran and read a record whose window is open
MountEffectReadOpen ==
  /\ MountEffectRan
  /\ Truthy(HighestPriority(storage, now))
  /\ now < Parse(HighestPriority(storage, now)).timestamp + config.windowMs

\* C28: when the mount-time effect reads a record inside its open window, the
\* published state matches the stored count: isLimited = (count >=
\* maxRequests), remainingRequests = max(0, maxRequests - count), and
\* resetTime = windowStart + windowMs when limited.
C28_MountEffectPublishesCount ==
  [][MountEffectReadOpen
       => LET record == Parse(HighestPriority(storage, now))
              left == config.maxRequests - record.count
          IN /\ published'.isLimited = (record.count >= config.maxRequests)
             /\ published'.remainingRequests = IF left > 0 THEN left ELSE 0
             /\ published'.isLimited
                  => published'.resetTime
                       = record.timestamp + config.windowMs]_vars

\* C28 witness: the mount-time effect read the count 1 of an open window
\* under a quota of 2, later than the call that stored it, and published one
\* remaining request; no call was made since.
C28_Witness ==
  /\ ~pending.mount /\ ~pending.fingerprint
  /\ Truthy(pending.read)
  /\ Parse(pending.read).count = 1
  /\ config.maxRequests = 2
  /\ storage.local = pending.read
  /\ now > Parse(pending.read).timestamp
  /\ now < Parse(pending.read).timestamp + config.windowMs
  /\ published = Published(FALSE, 1, NoTime)

\* the mount-time effect ran and read a text that does not parse
MountEffectReadMalformed ==
  /\ MountEffectRan
  /\ Truthy(HighestPriority(storage, now))
  /\ ~Parsable(HighestPriority(storage, now))

\* C29: when the mount-time effect reads an unparsable value, the error is
\* caught: the value is removed from localStorage and from sessionStorage,
\* the effect completes, and it does not set the published state to limited
\* (it leaves the published state as it was).
C29_MountEffectDropsMalformed ==
  [][MountEffectReadMalformed
       => /\ storage'.local = NoItem
          /\ storage'.session = NoItem
          /\ ~pending'.mount
          /\ published' = published]_vars

\* C29 witness: the mount-time effect read an unparsable text; neither
\* localStorage nor sessionStorage holds anything, and the hook publishes
\* the full quota.
C29_Witness ==
  /\ ~pending.mount /\ ~pending.fingerprint
  /\ pending.read = Garbage
  /\ storage.local = NoItem /\ storage.session = NoItem
  /\ published = InitialPublished(config)

\* the value of the one of localStorage and sessionStorage that holds one
PresentValue == IF Truthy(storage.local) THEN storage.local ELSE storage.session

\* exactly one of localStorage and sessionStorage holds the record
PresenceDisagreement ==
  /\ Truthy(storage.local) # Truthy(storage.session)
  /\ Parsable(PresentValue)

\* detectManipulation() called now returns true and leaves the present value
\* in both localStorage and sessionStorage
HealsNow ==
  /\ DetectManipulation(storage, fingerprint).flag
  /\ DetectManipulation(storage, fingerprint).store.local = PresentValue
  /\ DetectManipulation(storage, fingerprint).store.session = PresentValue

\* a checkRateLimit() call made now does not return blocked if the present
\* record counts less than maxRequests
CallNotBlocked ==
  (CheckCalled /\ Parse(PresentValue).count < config.maxRequests)
    => ~last'.ret

TwoWindowsOld(id) ==
  /\ requestCounts[id] # NoRecord
  /\ now - requestCounts[id].timestamp > 2 * WindowMs

\* C31: a sweep removes exactly the records with now - windowStart > 2 x
\* windowMs: a step that is not a request leaves every record as it was or
\* removes one that is that old, and a sweep that removes a record removes
\* all that are that old; so a record whose window is open is never removed
\* or altered by it.
C31_SweepRemovesExactlyStale ==
  [][(sent' = sent)
       => /\ \A id \in Identities :
               \/ requestCounts'[id] = requestCounts[id]
               \/ TwoWindowsOld(id) /\ requestCounts'[id] = NoRecord
          /\ SweepRemoved
               => \A id \in Identities :
                    TwoWindowsOld(id) => requestCounts'[id] = NoRecord]_vars

\* C31 witness: at a time more than two windows after the first request of
\* an identity, whose fetch is still pending, that identity's record is gone
\* from the map while the record another identity opened less than a window
\* ago, before that time, is still there with its count.
C31_Witness ==
  \E h \in Handlers : \E id \in Identities :
    /\ handlers[h].pc = "fetching"
    /\ handlers[h].clientId # id
    /\ requestCounts[handlers[h].clientId] = NoRecord
    /\ requestCounts[id] # NoRecord
    /\ requestCounts[id].timestamp < now
    /\ now - requestCounts[id].timestamp < WindowMs
    /\ requestCounts[id].count = RateLimitMaxRequests
    /\ now > WindowMs * 2

\* C32: for every combination of present and absent headers the IP part of
\* the identity is the trimmed first hop of x-forwarded-for when that header
\* is present, else x-real-ip, else x-client-ip, else "127.0.0.1", and the
\* other part is the hash of the user agent (of "unknown" without one), which
\* its leading characters determine.
C32_IdentityPriority ==
  sent > 0
    => /\ verdict.clientId.ip =
            IF verdict.headers.forwarded # <<>>
            THEN Head(verdict.headers.forwarded).text
            ELSE IF verdict.headers.realIP # NoHeader
            THEN verdict.headers.realIP
            ELSE IF verdict.headers.clientIP # NoHeader
            THEN verdict.headers.clientIP
            ELSE "127.0.0.1"
       /\ verdict.clientId.userAgentHash =
            <<"base64", IF verdict.headers.userAgent = NoUserAgent
                        THEN "unknown"
                        ELSE verdict.headers.userAgent.first12>>

\* C32 witness: a request with x-forwarded-for of two hops, the first one
\* padded with blanks, and with x-real-ip and x-client-ip as well, was given
\* the trimmed first hop as its IP part.
C32_Witness ==
  /\ sent > 0
  /\ Len(verdict.headers.forwarded) = 2
  /\ Head(verdict.headers.forwarded).padded
  /\ verdict.headers.realIP # NoHeader
  /\ verdict.headers.clientIP # NoHeader
  /\ verdict.headers.userAgent # NoUserAgent
  /\ verdict.clientId.ip = "198.51.100.9"

\* number of calls the client admitted in the interval of length windowMs
\* that ends now, counting only those made with a fingerprint or all of them
ClientBurst(identifiedOnly) ==
  Len(SelectSeq(Lately(recent.client, now),
                LAMBDA e : e.identified \/ ~identifiedOnly))

\* number of requests the server admitted in that interval
ServerBurst == Len(Lately(recent.server, now))

\* C33 as claimed: for one identity on the server and for one tab on the
\* client, the requests admitted in any interval of length windowMs are at
\* most 2 x maxRequests, whatever the call times.
C33_BurstBound ==
  /\ ServerBurst <= 2 * RateLimitMaxRequests
  /\ ClientBurst(FALSE) <= 2 * config.maxRequests

\* C33 amended: the same, counting on the client the calls made while a
\* fingerprint is available.
C33_BurstBoundIdentified ==
  /\ ServerBurst <= 2 * RateLimitMaxRequests
  /\ ClientBurst(TRUE) <= 2 * config.maxRequests

\* C33 witness: in the interval of length windowMs that ends now the client,
\* under a quota of 2, admitted four calls made with a fingerprint, two of
\* them in this millisecond, and the server admitted three requests, two of
\* them in this millisecond.
C33_Witness ==
  /\ config.maxRequests = 2
  /\ ClientBurst(TRUE) = 4
  /\ Len(SelectSeq(recent.client, LAMBDA e : e.time = now)) = 2
  /\ ServerBurst = 2 * RateLimitMaxRequests - 1
  /\ Len(SelectSeq(recent.server, LAMBDA e : e.time = now)) = 2

\* the record the client holds before and after a step, as a read finds it
ClientRecord == HighestPriority(storage, now)
ClientRecordAfter == HighestPriority(storage', now)

\* the client holds a record whose window is open
ClientWindowOpen ==
  /\ Truthy(ClientRecord)
  /\ now < Parse(ClientRecord).timestamp + config.windowMs

\* the map holds a record of the one identity whose window is open
ServerWindowOpen ==
  /\ requestCounts[GateClient] # NoRecord
  /\ now < requestCounts[GateClient].timestamp + WindowMs

\* C34: the window is fixed from first use, on the client and on the server:
\* a call made while the record's window is open, admitted or blocked, leaves
\* its windowStart as it was and does not decrease its count; a call changes
\* the windowStart only if it found no record or one whose window had
\* elapsed.
C34_WindowFixedFromFirstUse ==
  [][/\ CheckCalled
        => /\ ClientWindowOpen
                => /\ Truthy(ClientRecordAfter)
                   /\ Parse(ClientRecordAfter).timestamp
                        = Parse(ClientRecord).timestamp
                   /\ Parse(ClientRecordAfter).count
                        >= Parse(ClientRecord).count
           /\ (/\ Truthy(ClientRecord)
               /\ Truthy(ClientRecordAfter)
               /\ Parse(ClientRecordAfter).timestamp
                    # Parse(ClientRecord).timestamp)
                => now >= Parse(ClientRecord).timestamp + config.windowMs
     /\ (sent' = sent + 1)
        => /\ ServerWindowOpen
                => /\ requestCounts'[GateClient].timestamp
                        = requestCounts[GateClient].timestamp
                   /\ requestCounts'[GateClient].count
                        >= requestCounts[GateClient].count
           /\ (/\ requestCounts[GateClient] # NoRecord
               /\ requestCounts'[GateClient].timestamp
                    # requestCounts[GateClient].timestamp)
                => now >= requestCounts[GateClient].timestamp
                            + WindowMs]_vars

\* C34 witness: one millisecond after both windows were opened at time 0, a
\* call was blocked by the client and a request was denied by the server;
\* both records still start at 0 and hold the full count.
C34_Witness ==
  /\ now = 1
  /\ last.identified /\ last.ret
  /\ Parse(storage.local).timestamp = 0
  /\ Parse(storage.local).count = config.maxRequests
  /\ verdict.limited
  /\ requestCounts[GateClient] =
       [count |-> RateLimitMaxRequests, timestamp |-> 0]

\* C35: with MaxTabs tabs racing on the shared store between the read and
\* the write of a call, the calls admitted in one window never number more
\* than maxRequests plus the number of tabs.
C35_MultiTabOvershootBound ==
  \A item \in TabStoredItems :
    AdmittedSince(Parse(item).timestamp) <= config.maxRequests + MaxTabs

\* a checkRateLimit() call that ran to its end with a fingerprint available
CallCompleted == CheckCalled /\ last'.identified /\ ~last'.raised

\* C36: whenever a checkRateLimit() call publishes a reset time, that time is
\* the windowStart of the record stored after the call plus windowMs, also
\* when the call reset an elapsed window and for maxRequests = 1.
C36_PublishedResetTimeMatchesStore ==
  [][(CallCompleted /\ published'.resetTime # NoTime)
        => /\ Truthy(ClientRecordAfter)
           /\ published'.resetTime
                = Parse(ClientRecordAfter).timestamp + config.windowMs]_vars

\* C37: with one tab and a store nobody else writes, the published state is
\* well formed in every reachable state: remainingRequests lies in
\* 0..maxRequests, and isLimited implies remainingRequests = 0 and a reset
\* time.
C37_PublishedWellFormed ==
  /\ published.remainingRequests >= 0
  /\ published.remainingRequests <= config.maxRequests
  /\ published.isLimited
       => /\ published.remainingRequests = 0
          /\ published.resetTime # NoTime

\* C37 witness: a call was blocked on a full open window and the hook
\* publishes the limit, no remaining request and the end of that window.
C37_Witness ==
  /\ last.identified /\ last.ret
  /\ published.isLimited
  /\ published.remainingRequests = 0
  /\ Truthy(storage.local)
  /\ Parse(storage.local).count = config.maxRequests
  /\ published.resetTime = Parse(storage.local).timestamp + config.windowMs
  /\ now < published.resetTime

\* a request whose isRateLimited call installed or incremented a count
ConsumedQuota == sent' = sent + 1 /\ requestCounts' # requestCounts

\* a GET invocation reached its await of the upstream fetch
FetchStarted ==
  \E h \in Handlers : handlers[h] = Idle /\ handlers'[h].pc = "fetching"

\* C38: the server quota is consumed only by requests that reach the
\* upstream: a request that installs or increments the count of its identity
\* starts an upstream fetch; one answered 400 for a missing latitude or
\* longitude leaves the map as it was.
C38_QuotaConsumedOnlyByFetches ==
  [][ConsumedQuota => FetchStarted]_vars

\* C39: a request of one identity leaves the map entry of every other
\* identity unchanged, so at every later time isRateLimited answers a request
\* of another identity as it would have answered without that request.
C39_IdentitiesIsolated ==
  [][\A id \in Identities :
       Requested(id) =>
         \A other \in Identities \ {id} :
           /\ requestCounts'[other] = requestCounts[other]
           /\ \A t \in ServerTimes :
                t >= now' =>
                  ResultOf(requestCounts', other, t)
                    = ResultOf(requestCounts, other, t)]_vars

\* C39 witness: one identity holds a record with two requests counted from
\* time 0, and a later request of another identity opened that identity's
\* own window with a count of one.
C39_Witness ==
  \E id \in Identities :
    \E other \in Identities \ {id} :
      /\ verdict.clientId = id
      /\ ~verdict.limited
      /\ requestCounts[id].timestamp > 0
      /\ requestCounts[id].count = 1
      /\ requestCounts[other] = [count |-> 2, timestamp |-> 0]

\* C40: with the sweep firing every windowMs, a record stays in the map no
\* longer than 3 x windowMs after its windowStart, and every record is
\* eventually removed or replaced by a new window: the map does not keep
\* stale records.
C40_StaleRecordsEvicted ==
  /\ [](\A id \in Identities :
          requestCounts[id] # NoRecord
            => now - requestCounts[id].timestamp <= 3 * WindowMs)
  /\ \A id \in Identities :
       \A ts \in SweepTimes :
         (requestCounts[id] # NoRecord /\ requestCounts[id].timestamp = ts)
           ~> (requestCounts[id] = NoRecord
                 \/ requestCounts[id].timestamp # ts)

\* C40 witness: the third firing of the timer, three windows after the
\* module was loaded, has run and the record of the identity that made the
\* last request is gone; the first two firings found no record old enough.
C40_Witness ==
  /\ sent > 0
  /\ now = 3 * WindowMs
  /\ firings = 3
  /\ requestCounts[verdict.clientId] = NoRecord

====
